---- MODULE Spec2Model ----
(***************************************************************************)
(* Model of experiment_scripts/eval_poses.py (rm4d): sampling evaluation   *)
(* poses from a cylinder and checking them for reachability by IK.         *)
(*                                                                         *)
(* Real numbers are float64 in the program.  The model keeps the shape of  *)
(* IEEE arithmetic (round to nearest, ties to even, a fixed number of      *)
(* significant bits) in a scaled-down format: Precision significant bits   *)
(* instead of 53, values held as integers in units of 1/One.               *)
(***************************************************************************)
EXTENDS Integers, Sequences, FiniteSets, TLC

VARIABLES
    pc,               \* position of the process in the script
    argv,             \* the command line the process was started with
    args,             \* the namespace parse_args returned
    np_random,        \* state of numpy's global (legacy) generator, seeded from OS entropy
    data_dir,         \* main: data_dir
    sim,              \* the Simulator: "none", "connected", "disconnected"
    disconnects,      \* number of sim.disconnect() calls of this process
    robot,            \* main: robot
    poses,            \* main: poses / evaluate_ik: tfs_ee
    i,                \* evaluate_ik: loop variable
    reachable_by_ik,  \* evaluate_ik: the local array reachable_by_ik
    returned,         \* main: reachable_by_ik, << >> until evaluate_ik has returned it
    ikCalls,          \* robot.inverse_kinematics calls of this process, in order
    saved,            \* np.save calls of this process, in order
    report,           \* what main printed at the end
    prev              \* at most one earlier completed run of the script, to compare runs

vars == <<pc, argv, args, np_random, data_dir, sim, disconnects, robot, poses, i,
          reachable_by_ik, returned, ikCalls, saved, report, prev>>

\* the value of a name that is not bound (yet, or any more)
NoValue == [unbound |-> TRUE]

----------------------------------------------------------------------------
(* Bounds of the model *)

MaxSamples == 2

SampleCounts == 0..MaxSamples

----------------------------------------------------------------------------
(* float64 arithmetic, scaled down *)

Precision == 5

One == 4096

RECURSIVE Pow2(_)
Pow2(n) == IF n = 0 THEN 1 ELSE 2 * Pow2(n - 1)

Abs(a) == IF a < 0 THEN -a ELSE a

\* a / b rounded to the nearest integer, ties to even (a >= 0, b > 0)
RoundHalfEven(a, b) ==
    LET f == a \div b
        r == a % b
    IN  IF 2 * r < b THEN f
        ELSE IF 2 * r > b THEN f + 1
        ELSE IF f % 2 = 0 THEN f ELSE f + 1

\* spacing of the representable values around num / den (num >= 0)
RECURSIVE Quantum(_, _, _)
Quantum(num, den, q) ==
    IF num < den * q * Pow2(Precision) THEN q ELSE Quantum(num, den, 2 * q)

\* the representable value nearest to num / den
Fl(num, den) ==
    LET a == Abs(num)
        q == Quantum(a, den, 1)
        m == RoundHalfEven(a, den * q) * q
    IN  IF num < 0 THEN -m ELSE m

fmul(a, b) == Fl(a * b, One)

fadd(a, b) == Fl(a + b, 1)

fsub(a, b) == Fl(a - b, 1)

\* floor of the square root of n, by bisection on lo..hi
RECURSIVE ISqrt(_, _, _)
ISqrt(n, lo, hi) ==
    IF lo >= hi THEN lo
    ELSE LET mid == (lo + hi + 1) \div 2
         IN  IF mid * mid <= n THEN ISqrt(n, mid, hi) ELSE ISqrt(n, lo, mid - 1)

RECURSIVE SqrtQuantum(_, _)
SqrtQuantum(n, q) ==
    IF n < (q * Pow2(Precision)) * (q * Pow2(Precision)) THEN q ELSE SqrtQuantum(n, 2 * q)

\* np.sqrt: the representable value nearest to the square root of u (0 <= u <= One)
np_sqrt(u) ==
    LET n == u * One
        q == SqrtQuantum(n, 1)
        c == (ISqrt(n, 0, 2 * One) \div q) * q
        h == 2 * c + q
    IN  IF 4 * n > h * h THEN c + q
        ELSE IF 4 * n < h * h THEN c
        ELSE IF (c \div q) % 2 = 0 THEN c ELSE c + q

\* 2 * np.pi
TwoPi == Fl(25736, 1)

\* np.cos and np.sin on the angles 2 * np.pi * u can take, rounded to Precision bits
CosTable ==
    (0 :> 4096) @@ (800 :> 3968) @@ (1600 :> 3840) @@ (2432 :> 3456) @@
    (3200 :> 2944) @@ (3968 :> 2304) @@ (4864 :> 1536) @@ (5632 :> 800) @@
    (6400 :> 34) @@ (7168 :> -736) @@ (7936 :> -1472) @@ (8704 :> -2176) @@
    (9728 :> -2944) @@ (10240 :> -3328) @@ (11264 :> -3840) @@ (11776 :> -3968) @@
    (12800 :> -4096) @@ (13824 :> -3968) @@ (14336 :> -3840) @@ (15360 :> -3328) @@
    (15872 :> -3072) @@ (16384 :> -2688) @@ (17408 :> -1856) @@ (18432 :> -864) @@
    (19456 :> 152) @@ (20480 :> 1152) @@ (21504 :> 2048) @@ (22528 :> 2944) @@
    (23552 :> 3584) @@ (24576 :> 3968)

SinTable ==
    (0 :> 0) @@ (800 :> 800) @@ (1600 :> 1536) @@ (2432 :> 2304) @@
    (3200 :> 2944) @@ (3968 :> 3328) @@ (4864 :> 3840) @@ (5632 :> 3968) @@
    (6400 :> 4096) @@ (7168 :> 3968) @@ (7936 :> 3840) @@ (8704 :> 3456) @@
    (9728 :> 2816) @@ (10240 :> 2432) @@ (11264 :> 1536) @@ (11776 :> 1088) @@
    (12800 :> 68) @@ (13824 :> -960) @@ (14336 :> -1408) @@ (15360 :> -2304) @@
    (15872 :> -2688) @@ (16384 :> -3072) @@ (17408 :> -3712) @@ (18432 :> -3968) @@
    (19456 :> -4096) @@ (20480 :> -3968) @@ (21504 :> -3456) @@ (22528 :> -2944) @@
    (23552 :> -2048) @@ (24576 :> -1152)

np_cos(a) == CosTable[a]

np_sin(a) == SinTable[a]

----------------------------------------------------------------------------
(* numpy's Generator.  PCG64 is replaced by a small generator with the same *)
(* interface: a state made from the seed, one raw draw per sample, each     *)
(* draw advancing the state.                                                *)

RawModulus == Pow2(Precision)

AllSeeds == 0..(RawModulus * RawModulus - 1)

\* a generator taken from numpy's global state instead of made from the seed
default_rng_global(seed) == np_random

\* np.random.default_rng(seed): a new generator whose state is a function of the seed only
default_rng(seed) == [a |-> seed % RawModulus, b |-> (seed \div RawModulus) % RawModulus]

Advance(rng) == [a |-> rng.b, b |-> (rng.a + rng.b + 1) % RawModulus]

\* n raw draws: the values drawn and the generator afterwards
RECURSIVE Draws(_, _)
Draws(rng, n) ==
    IF n = 0 THEN [val |-> << >>, rng |-> rng]
    ELSE LET g == Advance(rng)
             rest == Draws(g, n - 1)
         IN  [val |-> <<g.b>> \o rest.val, rng |-> rest.rng]

\* rng.uniform(low, high, n): low + (high - low) * u with u = raw / 2^Precision in [0, 1)
uniform(low, high, n, rng) ==
    LET d == Draws(rng, n)
    IN  [val |-> [k \in 1..n |->
                    fadd(low, fmul(fsub(high, low), (d.val[k] * One) \div RawModulus))],
         rng |-> d.rng]

\* The rotations Rotation.random can return in the model: quarter turns about z,
\* as 3x3 matrices
RotationCatalog ==
    << <<<<One, 0, 0>>, <<0, One, 0>>, <<0, 0, One>>>>,
       <<<<0, -One, 0>>, <<One, 0, 0>>, <<0, 0, One>>>>,
       <<<<-One, 0, 0>>, <<0, -One, 0>>, <<0, 0, One>>>>,
       <<<<0, One, 0>>, <<-One, 0, 0>>, <<0, 0, One>>>> >>

\* Rotation.random(num=n, random_state=rng).as_matrix()
Rotation_random(n, rng) ==
    LET d == Draws(rng, n)
    IN  [val |-> [k \in 1..n |-> RotationCatalog[(d.val[k] % Len(RotationCatalog)) + 1]],
         rng |-> d.rng]

\* np.eye(4)
eye4 == <<<<One, 0, 0, 0>>, <<0, One, 0, 0>>, <<0, 0, One, 0>>, <<0, 0, 0, One>>>>

\* tf[:3, :3] = r
SetRotation(tf, r) ==
    [row \in 1..4 |-> [col \in 1..4 |->
        IF row <= 3 /\ col <= 3 THEN r[row][col] ELSE tf[row][col]]]

\* tf[0, 3] = x; tf[1, 3] = y; tf[2, 3] = z
SetPosition(tf, x, y, z) ==
    [tf EXCEPT ![1][4] = x, ![2][4] = y, ![3][4] = z]

\* the radius scaled under the square root: np.sqrt(max_radius * u)
radii_of_sqrt_outside(max_radius, u) == np_sqrt(fmul(max_radius, u))

\* radii = max_radius * np.sqrt(rng.uniform(0, 1, n_samples))
radii_of(max_radius, u) == fmul(max_radius, np_sqrt(u))

\* rng.uniform(0.0, max_z, n_samples)
z_pos_of(max_z, n_samples, rng) == uniform(0, max_z, n_samples, rng)

get_evaluation_poses(max_radius, max_z, n_samples, seed) ==
    LET rng == default_rng(seed)
        tfs0 == [k \in 1..n_samples |-> eye4]
        rot == Rotation_random(n_samples, rng)
        u1 == uniform(0, One, n_samples, rot.rng)
        radii == [k \in 1..n_samples |-> radii_of(max_radius, u1.val[k])]
        u2 == uniform(0, One, n_samples, u1.rng)
        angles == [k \in 1..n_samples |-> fmul(TwoPi, u2.val[k])]
        x_pos == [k \in 1..n_samples |-> fmul(radii[k], np_cos(angles[k]))]
        y_pos == [k \in 1..n_samples |-> fmul(radii[k], np_sin(angles[k]))]
        z_pos == z_pos_of(max_z, n_samples, u2.rng)
    IN  [k \in 1..n_samples |->
            SetPosition(SetRotation(tfs0[k], rot.val[k]), x_pos[k], y_pos[k], z_pos.val[k])]

----------------------------------------------------------------------------
(* The collaborators: exp_utils, the Simulator and the robot model *)

\* exp_utils.robot_types, its keys
robot_types == {"franka", "ur5e"}

\* exp_utils.franka_versions, its keys
franka_versions == {150, 160, 166}

\* robot.range_radius and robot.range_z of each robot model
RobotModel(robot_type, degrees) ==
    IF robot_type = "franka"
    THEN [type |-> robot_type, urdf_fn |-> degrees,
          range_radius |-> Fl(3502, 1), range_z |-> Fl(4874, 1)]
    ELSE [type |-> robot_type, urdf_fn |-> 0,
          range_radius |-> Fl(3482, 1), range_z |-> Fl(4096, 1)]

\* the quaternions (x, y, z, w) of the rotations of RotationCatalog
QuatCatalog ==
    << <<0, 0, 0, One>>,
       <<0, 0, Fl(2896, 1), Fl(2896, 1)>>,
       <<0, 0, One, 0>>,
       <<0, 0, -Fl(2896, 1), Fl(2896, 1)>> >>

\* sim.tf_to_pos_quat(tf)
tf_to_pos_quat(tf) ==
    LET block == [row \in 1..3 |-> [col \in 1..3 |-> tf[row][col]]]
        k == CHOOSE j \in 1..Len(RotationCatalog) : RotationCatalog[j] = block
    IN  [pos |-> <<tf[1][4], tf[2][4], tf[3][4]>>, quat |-> QuatCatalog[k]]

\* what one call of robot.inverse_kinematics can do: return a joint
\* configuration, return None, or raise
IKOutcomes == {"joints", "None", "raise"}

----------------------------------------------------------------------------
(* The command line *)

Thresholds == {25}

TrialCounts == {100}

Seeds == {27, 28}

\* what a user can type: the known robot types and variants and unknown ones
ArgSpace ==
    [robot_type : robot_types \cup {"panda7"},
     degrees : franka_versions \cup {170},
     num_samples : SampleCounts,
     threshold : Thresholds,
     iterations : TrialCounts,
     seed : Seeds]

\* the states numpy's global generator can start in
EntropyStates == {[a |-> 1, b |-> 0], [a |-> 2, b |-> 0]}

\* argparse without the choices
parse_args_unchecked(a) == [ok |-> TRUE, namespace |-> a]

\* argparse: choices=list(robot_types.keys()), choices=list(franka_versions.keys())
parse_args(a) ==
    [ok |-> a.robot_type \in robot_types /\ a.degrees \in franka_versions, namespace |-> a]

Terminal == {"done", "usage_error", "KeyError", "IKError", "ZeroDivisionError"}

Init ==
    /\ pc = "parse_args"
    /\ argv \in ArgSpace
    /\ args = NoValue
    /\ np_random \in EntropyStates
    /\ data_dir = NoValue
    /\ sim = "none"
    /\ disconnects = 0
    /\ robot = NoValue
    /\ poses = << >>
    /\ i = 0
    /\ reachable_by_ik = << >>
    /\ returned = << >>
    /\ ikCalls = << >>
    /\ saved = << >>
    /\ report = NoValue
    /\ prev = {}

\* main(parse_args()), line 126: argparse exits with a usage error on a value
\* outside the choices
ParseArgs ==
    /\ pc = "parse_args"
    /\ IF parse_args(argv).ok
       THEN /\ args' = parse_args(argv).namespace
            /\ pc' = "main"
       ELSE /\ args' = args
            /\ pc' = "usage_error"
    /\ UNCHANGED <<argv, np_random, data_dir, sim, disconnects, robot, poses, i,
                   reachable_by_ik, returned, ikCalls, saved, report, prev>>

\* main, lines 92-103
MakeDataDir ==
    /\ pc = "main"
    /\ data_dir' = [robot_name |-> IF args.robot_type = "franka"
                                   THEN <<args.robot_type, args.degrees>>
                                   ELSE <<args.robot_type>>,
                    n |-> args.num_samples,
                    t |-> args.threshold,
                    i |-> args.iterations]
    /\ pc' = "get_sim_and_robot"
    /\ UNCHANGED <<argv, args, np_random, sim, disconnects, robot, poses, i,
                   reachable_by_ik, returned, ikCalls, saved, report, prev>>

\* main, lines 105-107, with get_sim_and_robot
get_sim_and_robot ==
    /\ pc = "get_sim_and_robot"
    /\ sim' = "connected"
    /\ IF \/ args.robot_type \notin robot_types
          \/ args.robot_type = "franka" /\ args.degrees \notin franka_versions
       THEN /\ pc' = "KeyError"
            /\ robot' = robot
       ELSE /\ pc' = "get_evaluation_poses"
            /\ robot' = RobotModel(args.robot_type, args.degrees)
    /\ UNCHANGED <<argv, args, np_random, data_dir, disconnects, poses, i,
                   reachable_by_ik, returned, ikCalls, saved, report, prev>>

\* main, line 109
Sample ==
    /\ pc = "get_evaluation_poses"
    /\ poses' = get_evaluation_poses(robot.range_radius, robot.range_z,
                                     args.num_samples, args.seed)
    /\ pc' = "save_poses"
    /\ UNCHANGED <<argv, args, np_random, data_dir, sim, disconnects, robot, i,
                   reachable_by_ik, returned, ikCalls, saved, report, prev>>

\* main, line 110
poses_fn(dir) == <<dir, "poses.npy">>

\* the verdicts written to the file of the poses
reachable_fn_of_poses(dir) == <<dir, "poses.npy">>

\* main, line 115
reachable_fn(dir) == <<dir, "reachable_by_ik.npy">>

\* main, lines 110-111
SavePoses ==
    /\ pc = "save_poses"
    /\ saved' = Append(saved, [fn |-> poses_fn(data_dir), data |-> poses])
    /\ pc' = "evaluate_ik"
    /\ UNCHANGED <<argv, args, np_random, data_dir, sim, disconnects, robot, poses, i,
                   reachable_by_ik, returned, ikCalls, report, prev>>

\* evaluate_ik, line 81, and the start of the loop
EvalBegin ==
    /\ pc = "evaluate_ik"
    /\ reachable_by_ik' = [k \in 1..Len(poses) |-> FALSE]
    /\ i' = 0
    /\ pc' = "loop"
    /\ UNCHANGED <<argv, args, np_random, data_dir, sim, disconnects, robot, poses,
                   returned, ikCalls, saved, report, prev>>

\* the call with threshold and iterations in each other's place
ik_call_swapped(tfs_ee, idx, threshold, iterations, seed) ==
    LET pq == tf_to_pos_quat(tfs_ee[idx + 1])
    IN  [index |-> idx, pos |-> pq.pos, quat |-> pq.quat,
         threshold |-> iterations, trials |-> threshold, seed |-> seed]

\* the poses taken from the end of the array
ik_call_reversed(tfs_ee, idx, threshold, iterations, seed) ==
    LET pq == tf_to_pos_quat(tfs_ee[Len(tfs_ee) - idx])
    IN  [index |-> idx, pos |-> pq.pos, quat |-> pq.quat,
         threshold |-> threshold, trials |-> iterations, seed |-> seed]

\* the call of line 85 for the pose at (0-based) index idx
ik_call(tfs_ee, idx, threshold, iterations, seed) ==
    LET pq == tf_to_pos_quat(tfs_ee[idx + 1])
    IN  [index |-> idx, pos |-> pq.pos, quat |-> pq.quat,
         threshold |-> threshold, trials |-> iterations, seed |-> seed]

\* the test inverted: ik_sln is None
record_verdict_inverted(verdicts, idx, ik_sln) ==
    [verdicts EXCEPT ![idx + 1] = (ik_sln = "None")]

\* line 86: reachable_by_ik[i] = ik_sln is not None
record_verdict(verdicts, idx, ik_sln) ==
    [verdicts EXCEPT ![idx + 1] = (ik_sln # "None")]

\* an exception of the solver caught and the loop going on
propagates_caught(ik_sln) == FALSE

\* line 85 stands in no try block: an exception of the solver leaves evaluate_ik
propagates(ik_sln) == ik_sln = "raise"

\* evaluate_ik, lines 83-86: one iteration; i counts the iterations completed.
\* An exception of the solver is not caught anywhere and ends the process.
EvalStep ==
    /\ pc = "loop"
    /\ i < Len(poses)
    /\ \E ik_sln \in IKOutcomes :
        /\ ikCalls' = Append(ikCalls,
                [call |-> ik_call(poses, i, args.threshold, args.iterations, args.seed),
                 sim |-> sim,
                 result |-> ik_sln])
        /\ IF propagates(ik_sln)
           THEN /\ pc' = "IKError"
                /\ UNCHANGED <<i, reachable_by_ik>>
           ELSE /\ pc' = "loop"
                /\ reachable_by_ik' = record_verdict(reachable_by_ik, i, ik_sln)
                /\ i' = i + 1
    /\ UNCHANGED <<argv, args, np_random, data_dir, sim, disconnects, robot, poses,
                   returned, saved, report, prev>>

\* evaluate_ik, line 88, and the assignment of line 113
EvalReturn ==
    /\ pc = "loop"
    /\ i = Len(poses)
    /\ returned' = <<reachable_by_ik>>
    /\ pc' = "disconnect"
    /\ UNCHANGED <<argv, args, np_random, data_dir, sim, disconnects, robot, poses, i,
                   reachable_by_ik, ikCalls, saved, report, prev>>

\* main without line 114
Disconnect_forgotten ==
    /\ pc = "disconnect"
    /\ pc' = "save_reachable"
    /\ UNCHANGED <<argv, args, np_random, data_dir, sim, disconnects, robot, poses, i,
                   reachable_by_ik, returned, ikCalls, saved, report, prev>>

\* main, line 114
Disconnect ==
    /\ pc = "disconnect"
    /\ sim' = "disconnected"
    /\ disconnects' = disconnects + 1
    /\ pc' = "save_reachable"
    /\ UNCHANGED <<argv, args, np_random, data_dir, robot, poses, i,
                   reachable_by_ik, returned, ikCalls, saved, report, prev>>

\* main, lines 115-116
SaveReachable ==
    /\ pc = "save_reachable"
    /\ saved' = Append(saved, [fn |-> reachable_fn(data_dir), data |-> returned[1]])
    /\ pc' = "report"
    /\ UNCHANGED <<argv, args, np_random, data_dir, sim, disconnects, robot, poses, i,
                   reachable_by_ik, returned, ikCalls, report, prev>>

\* reachable_by_ik.sum()
RECURSIVE np_sum(_)
np_sum(b) == IF Len(b) = 0 THEN 0 ELSE (IF Head(b) THEN 1 ELSE 0) + np_sum(Tail(b))

\* a / b with Python numbers: a zero divisor raises
py_true_divide(a, b) ==
    IF b = 0
    THEN [kind |-> "ZeroDivisionError"]
    ELSE [kind |-> "float", value |-> Fl(a, b)]

\* a / b with a a numpy float64 scalar: a zero divisor gives nan or inf and a
\* RuntimeWarning, not an exception
np_true_divide(a, b) ==
    IF b = 0
    THEN [kind |-> IF a = 0 THEN "nan" ELSE "inf"]
    ELSE [kind |-> "float", value |-> Fl(a, b)]

\* main, lines 118-122
Report ==
    /\ pc = "report"
    /\ LET s == np_sum(returned[1])
           yes == np_true_divide(Fl(100 * One * s, 1), args.num_samples)
           no == np_true_divide(Fl(100 * One * (args.num_samples - s), 1), args.num_samples)
       IN  IF "ZeroDivisionError" \in {yes.kind, no.kind}
           THEN /\ pc' = "ZeroDivisionError"
                /\ report' = report
           ELSE /\ pc' = "done"
                /\ report' = [sampled |-> args.num_samples, reachable |-> yes,
                              not_reachable |-> no]
    /\ UNCHANGED <<argv, args, np_random, data_dir, sim, disconnects, robot, poses, i,
                   reachable_by_ik, returned, ikCalls, saved, prev>>

\* what is kept of a completed run to compare a later run with
Snapshot == [args |-> args, radius |-> robot.range_radius, z_max |-> robot.range_z,
             poses |-> poses, ikCalls |-> ikCalls, reachable_by_ik |-> returned[1]]

\* The process ends, normally or with an uncaught exception; its memory and
\* its simulator connection go with it
Exit ==
    /\ pc \in Terminal
    /\ pc' = "exited"
    /\ prev' \in {prev} \cup (IF pc = "done" THEN {{Snapshot}} ELSE {})
    /\ argv' = NoValue
    /\ np_random' = NoValue
    /\ args' = NoValue
    /\ data_dir' = NoValue
    /\ sim' = "none"
    /\ disconnects' = 0
    /\ robot' = NoValue
    /\ poses' = << >>
    /\ i' = 0
    /\ reachable_by_ik' = << >>
    /\ returned' = << >>
    /\ ikCalls' = << >>
    /\ saved' = << >>
    /\ report' = NoValue

\* The script is started again (line 125) with some command line
Start ==
    /\ pc = "exited"
    /\ pc' = "parse_args"
    /\ argv' \in ArgSpace
    /\ np_random' \in EntropyStates
    /\ UNCHANGED <<args, data_dir, sim, disconnects, robot, poses, i,
                   reachable_by_ik, returned, ikCalls, saved, report, prev>>

Next ==
    \/ ParseArgs
    \/ MakeDataDir
    \/ get_sim_and_robot
    \/ Sample
    \/ SavePoses
    \/ EvalBegin
    \/ EvalStep
    \/ EvalReturn
    \/ Disconnect
    \/ SaveReachable
    \/ Report
    \/ Exit
    \/ Start

Spec == Init /\ [][Next]_vars

----------------------------------------------------------------------------
(* The sampler alone: get_evaluation_poses applied to any cylinder and seed *)

RadiusInputs == {0, 1, 3, 1536, Fl(3277, 1), One}

HeightInputs == {0, Fl(4915, 1)}

InitSampler ==
    /\ pc = "get_evaluation_poses"
    /\ argv \in [robot_type : {"franka"}, degrees : {166}, num_samples : SampleCounts,
                 threshold : Thresholds, iterations : TrialCounts, seed : AllSeeds]
    /\ args = argv
    /\ np_random = [a |-> 1, b |-> 0]
    /\ data_dir = NoValue
    /\ sim = "connected"
    /\ disconnects = 0
    /\ robot \in [type : {"franka"}, urdf_fn : {166},
                  range_radius : RadiusInputs, range_z : HeightInputs]
    /\ poses = << >>
    /\ i = 0
    /\ reachable_by_ik = << >>
    /\ returned = << >>
    /\ ikCalls = << >>
    /\ saved = << >>
    /\ report = NoValue
    /\ prev = {}

NextSampler == Sample

SamplerSpec == InitSampler /\ [][NextSampler]_vars

----------------------------------------------------------------------------
(* Where the process is *)

\* main has its arguments
Parsed == pc \notin {"parse_args", "usage_error", "exited"}

\* get_evaluation_poses has returned
Sampled == pc \in {"save_poses", "evaluate_ik", "loop", "IKError", "disconnect",
                   "save_reachable", "report", "done", "ZeroDivisionError"}

\* evaluate_ik has started
Evaluating == pc \in {"loop", "IKError", "disconnect", "save_reachable", "report",
                      "done", "ZeroDivisionError"}

\* evaluate_ik has returned
Evaluated == returned # << >>

Position(tf) == <<tf[1][4], tf[2][4], tf[3][4]>>

SolverArgs(c) == [pos |-> c.call.pos, quat |-> c.call.quat, threshold |-> c.call.threshold,
                  trials |-> c.call.trials, seed |-> c.call.seed]

----------------------------------------------------------------------------
(* Claims *)

\* C1: evaluate_ik returns one boolean per pose, and entry i is true exactly
\* when the solver call made for pose i returned a solution; a call that
\* returned None is recorded as false and the loop goes on with the next pose.
C1_VerdictsMatchSolver ==
    /\ pc = "loop" =>
        /\ Len(reachable_by_ik) = Len(poses)
        /\ Len(ikCalls) = i
        /\ \A k \in 1..i :
            /\ ikCalls[k].call.index = k - 1
            /\ reachable_by_ik[k] = (ikCalls[k].result = "joints")
        /\ \A k \in (i + 1)..Len(poses) : reachable_by_ik[k] = FALSE
    /\ Evaluated =>
        /\ Len(returned[1]) = Len(poses)
        /\ Len(ikCalls) = Len(poses)
        /\ \A k \in 1..Len(poses) :
            /\ ikCalls[k].call.index = k - 1
            /\ returned[1][k] = (ikCalls[k].result = "joints")

\* a run in which pose 0 had no solution and pose 1, evaluated after it, had one
C1_Witness ==
    /\ pc = "disconnect"
    /\ Len(poses) = 2
    /\ ikCalls[1].result = "None"
    /\ ikCalls[2].result = "joints"
    /\ returned[1] = <<FALSE, TRUE>>

\* C2: get_evaluation_poses returns exactly n_samples poses; with
\* n_samples = 0 the Pose Set is empty, the verdict array is empty, no solver
\* call is made, and the run gets to its end without an exception.
C2_ExactlyNSamples ==
    /\ Sampled => Len(poses) = args.num_samples
    /\ (Sampled /\ args.num_samples = 0) => poses = << >>
    /\ (Parsed /\ args.num_samples = 0) =>
        /\ ikCalls = << >>
        /\ pc \notin {"KeyError", "IKError", "ZeroDivisionError"}
        /\ Evaluated => returned[1] = << >>
        /\ pc = "done" =>
            /\ Len(saved) = 2
            /\ saved[1].data = << >>
            /\ saved[2].data = << >>

\* a run with no samples that has printed its report
C2_Witness ==
    /\ pc = "done"
    /\ args.num_samples = 0
    /\ Len(saved) = 2
    /\ report.sampled = 0
    /\ report.reachable.kind = "nan"

\* C3 as stated: every sampled position lies in the cylinder, exactly
C3_InCylinderExact ==
    Sampled =>
        \A k \in 1..Len(poses) :
            LET p == Position(poses[k])
            IN  /\ p[1] * p[1] + p[2] * p[2] <= robot.range_radius * robot.range_radius
                /\ 0 <= p[3]
                /\ p[3] <= robot.range_z
                /\ robot.range_radius = 0 => (p[1] = 0 /\ p[2] = 0)
                /\ robot.range_z = 0 => p[3] = 0

\* C3: every sampled position lies in the cylinder up to the rounding of the
\* arithmetic: sqrt(x^2 + y^2) <= max_radius * (1 + 4 * 2^-Precision) + 1/One
\* (four unit roundoffs and one smallest positive value), and exactly
\* 0 <= z <= max_z; max_radius = 0 gives x = y = 0 and max_z = 0 gives z = 0.
C3_InCylinderWithinRounding ==
    Sampled =>
        \A k \in 1..Len(poses) :
            LET p == Position(poses[k])
                bound == (robot.range_radius * (Pow2(Precision) + 4)) \div Pow2(Precision) + 1
            IN  /\ p[1] * p[1] + p[2] * p[2] <= bound * bound
                /\ 0 <= p[3]
                /\ p[3] <= robot.range_z
                /\ robot.range_radius = 0 => (p[1] = 0 /\ p[2] = 0)
                /\ robot.range_z = 0 => p[3] = 0

\* a sampled position that rounding has put outside the exact cylinder
C3_Witness ==
    /\ Sampled
    /\ \E k \in 1..Len(poses) :
        LET p == Position(poses[k])
        IN  /\ p[1] * p[1] + p[2] * p[2] > robot.range_radius * robot.range_radius
            /\ p[3] > 0

\* C4: a run of the sampler with the same (seed, n_samples, max_radius, max_z)
\* as an earlier run gives the same Pose Set, whatever ran in between; and when
\* the solver gave the same answers to the same calls, a run with the same
\* parameters gives the same verdicts.
C4_SamplerDeterministic ==
    \A p \in prev :
        /\ ( /\ Sampled
             /\ args.seed = p.args.seed
             /\ args.num_samples = p.args.num_samples
             /\ robot.range_radius = p.radius
             /\ robot.range_z = p.z_max )
           => poses = p.poses
        /\ ( /\ Evaluated
             /\ args = p.args
             /\ \A a \in 1..Len(p.ikCalls) : \A b \in 1..Len(ikCalls) :
                    SolverArgs(p.ikCalls[a]) = SolverArgs(ikCalls[b])
                        => p.ikCalls[a].result = ikCalls[b].result )
           => returned[1] = p.reachable_by_ik

\* a second complete run with the parameters of an earlier one and poses to compare
C4_Witness ==
    /\ pc = "done"
    /\ \E p \in prev :
        /\ args = p.args
        /\ Len(p.poses) = 2
        /\ poses = p.poses
        /\ returned[1] = p.reachable_by_ik

\* C5: when the solver raises on the call for pose k the run ends there: that
\* call is the last one, it is made once, the verdict of pose k is not set, no
\* verdict array is returned and none is written.
C5_SolverErrorAborts ==
    \A k \in 1..Len(ikCalls) :
        ikCalls[k].result = "raise" =>
            /\ pc = "IKError"
            /\ k = Len(ikCalls)
            /\ ikCalls[k].call.index = k - 1
            /\ \A j \in 1..(k - 1) : ikCalls[j].call.index # k - 1
            /\ i = k - 1
            /\ reachable_by_ik[k] = FALSE
            /\ returned = << >>
            /\ \A w \in 1..Len(saved) : saved[w].fn[2] # "reachable_by_ik.npy"

\* a run aborted by the solver on its second pose
C5_Witness ==
    /\ pc = "IKError"
    /\ Len(poses) = 2
    /\ Len(ikCalls) = 2
    /\ ikCalls[1].result = "joints"
    /\ ikCalls[2].result = "raise"

InvalidConfig(a) == a.robot_type \notin robot_types \/ a.degrees \notin franka_versions

\* C6: a process started with an unknown robot type or an unknown degrees
\* value ends in parse_args: it creates no simulator, samples no pose, makes no
\* solver call and writes nothing.
C6_InvalidConfigFailsFast ==
    (pc # "exited" /\ InvalidConfig(argv)) =>
        /\ pc \in {"parse_args", "usage_error"}
        /\ sim = "none"
        /\ ikCalls = << >>
        /\ saved = << >>

\* a robot that ignores degrees, started with an unknown degrees value
C6_Witness ==
    /\ pc = "usage_error"
    /\ argv.robot_type = "ur5e"
    /\ argv.degrees = 170

\* C7 as stated: every run that has created the simulator has disconnected it
\* exactly once when it ends
C7_TeardownInEveryRun ==
    /\ (pc \in Terminal /\ sim # "none") => disconnects = 1
    /\ \A k \in 1..Len(ikCalls) : ikCalls[k].sim = "connected"

\* C7: a run in which evaluate_ik returns disconnects the simulator exactly
\* once, after the last solver call; no run disconnects it twice, a run aborted
\* by the solver never does, and every solver call is made while it is connected.
C7_TeardownAfterEvaluation ==
    /\ disconnects <= 1
    /\ disconnects = 1 <=> sim = "disconnected"
    /\ sim = "disconnected" => (Evaluated /\ Len(ikCalls) = Len(poses))
    /\ pc \in {"save_reachable", "report", "done"} => disconnects = 1
    /\ pc = "IKError" => (disconnects = 0 /\ sim = "connected")
    /\ \A k \in 1..Len(ikCalls) : ikCalls[k].sim = "connected"

\* a complete run of two solver calls, the simulator disconnected
C7_Witness ==
    /\ pc = "done"
    /\ Len(ikCalls) = 2
    /\ sim = "disconnected"
    /\ disconnects = 1

\* C8 as stated: nothing is written before every pose has its verdict
C8_BothWrittenAtEnd ==
    /\ saved # << >> => (Evaluated /\ Len(returned[1]) = Len(poses))
    /\ Len(saved) <= 2

\* C8: the Pose Set is written once, right after sampling and before the first
\* solver call; the verdict array is written once, at the end, when every pose
\* has its verdict; neither is written again, and a run aborted during the
\* evaluation leaves the Pose Set written and no verdict array.
C8_WrittenOnce ==
    /\ Len(saved) <= 2
    /\ saved # << >> =>
        /\ Sampled
        /\ saved[1].fn = <<data_dir, "poses.npy">>
        /\ saved[1].data = poses
    /\ Len(saved) = 2 =>
        /\ Evaluated
        /\ sim = "disconnected"
        /\ saved[2].fn = <<data_dir, "reachable_by_ik.npy">>
        /\ saved[2].data = returned[1]
        /\ Len(saved[2].data) = Len(poses)
    /\ pc \in {"evaluate_ik", "loop", "IKError", "disconnect", "save_reachable"}
        => Len(saved) = 1
    /\ pc = "evaluate_ik" => ikCalls = << >>
    /\ pc \in {"report", "done"} => Len(saved) = 2

\* a run aborted during the evaluation, with the Pose Set on disk
C8_Witness ==
    /\ pc = "IKError"
    /\ Len(saved) = 1
    /\ saved[1].fn[2] = "poses.npy"
    /\ Len(saved[1].data) = 2

\* the verdict of the pose at index k - 1 as the evaluation stands
Status(k) ==
    IF Evaluating /\ k <= i
    THEN IF reachable_by_ik[k] THEN "solved" ELSE "unsolved"
    ELSE "pending"

C9_Calls ==
    /\ Evaluating => Len(ikCalls) <= Len(poses)
    /\ pc = "loop" => Len(ikCalls) = i
    /\ Evaluated => (Len(ikCalls) = Len(poses) /\ i = Len(poses))
    /\ \A k \in 1..Len(ikCalls) :
        /\ ikCalls[k].call.index = k - 1
        /\ ikCalls[k].call.threshold = args.threshold
        /\ ikCalls[k].call.trials = args.iterations
        /\ ikCalls[k].call.seed = args.seed
    /\ Evaluated => \A k \in 1..Len(poses) : Status(k) # "pending"

C9_Step ==
    (Evaluating /\ pc' # "exited") =>
        /\ \A k \in 1..Len(poses) :
            /\ Status(k) # "pending" => Status(k)' = Status(k)
            /\ (Status(k) = "pending" /\ Status(k)' # "pending") =>
                /\ k = i + 1
                /\ Len(ikCalls') = Len(ikCalls) + 1
                /\ ikCalls'[k].result # "raise"
        /\ Len(ikCalls') > Len(ikCalls) =>
            /\ Len(ikCalls') = Len(ikCalls) + 1
            /\ ikCalls'[Len(ikCalls')].result # "raise" => i' = i + 1

\* C9: the solver is called once per pose, in index order, each call with the
\* configured threshold, trial count and seed; a call that returns moves one
\* pose from pending to solved or unsolved, for good, and takes the loop one
\* pose further, so that evaluate_ik returns with no pose pending.
C9_OncePerPoseInOrder == [](C9_Calls) /\ [][C9_Step]_vars

\* a returned evaluation in which the solver found nothing twice and was asked twice
C9_Witness ==
    /\ Evaluated
    /\ Len(ikCalls) = 2
    /\ ikCalls[1].result = "None"
    /\ ikCalls[2].result = "None"
    /\ Status(1) = "unsolved"
    /\ Status(2) = "unsolved"

C10_Frozen ==
    /\ Evaluating => saved # << >>
    /\ saved # << >> => saved[1].data = poses
    /\ \A k \in 1..Len(ikCalls) :
        /\ ikCalls[k].call.pos = tf_to_pos_quat(poses[k]).pos
        /\ ikCalls[k].call.quat = tf_to_pos_quat(poses[k]).quat
        /\ ikCalls[k].call.pos = tf_to_pos_quat(saved[1].data[k]).pos

\* C10: the Pose Set exists before the first solver call and nothing changes
\* it afterwards: the pose of the k-th solver call is the k-th pose that was
\* written to poses.npy.
C10_PoseSetReadOnly ==
    [](C10_Frozen) /\ [][(Sampled /\ pc' # "exited") => poses' = poses]_vars

\* a complete run over two different poses
C10_Witness ==
    /\ pc = "done"
    /\ Len(poses) = 2
    /\ poses[1] # poses[2]
    /\ Len(ikCalls) = 2
    /\ saved[1].data = poses

====
